---- MODULE Spec2Model ----
(***************************************************************************)
(* Model of the news scraping pipeline of container/scraper.py:            *)
(* NewsScraper.scrape_all_sites, NewsScraper.scrape_site, get_soup /       *)
(* get_page_html, parse_date and the NewsArticle / SiteConfig models.      *)
(*                                                                         *)
(* Strings are sequences of text fragments (tokens); the string is the     *)
(* concatenation of its fragments.  None is the one-fragment value None.   *)
(* The document tree is not modelled node by node: a card is the record of *)
(* what select_one / get return on it for the configured selectors, and    *)
(* the page hands its sections and cards to the loops one at a time.       *)
(***************************************************************************)
EXTENDS Integers, Sequences, FiniteSets, TLC

\* ------------------------------------------------------------- bounds
MaxSites == 2
MaxCards == 3

\* ------------------------------------------------------------- values
None == <<"<None>">>
NoExc == "none"

\* A date as date() prints it; Today stands for date.today().
Today == "today"

\* ------------------------------------------------------------- pydantic HttpUrl
HttpSchemes == {"http", "https"}

\* The host as the URL parser stores it: lower case.
LowerHost(h) ==
    CASE h = "EX.com" -> "ex.com"
      [] OTHER -> h

Hosts == {"ex.com", "EX.com", "ap.com"}

\* HttpUrl validation of a string (pydantic 2, which main.py's model_dump
\* requires): scheme http or https, "://", a host.  The value kept is the
\* parsed URL, which prints normalised: lower-case host, "/" for an empty
\* path; two strings that differ only there give equal HttpUrl values.
HttpUrlValid(s) ==
    /\ Len(s) >= 3
    /\ s[1] \in HttpSchemes
    /\ s[2] = "://"
    /\ s[3] \in Hosts

HttpUrl(s) ==
    <<s[1], s[2], LowerHost(s[3])>>
        \o (IF Len(s) = 3 THEN <<"/">> ELSE SubSeq(s, 4, Len(s)))

\* str(url) of a validated HttpUrl field is the normalised text itself.
UrlHost(u) == u[3]

\* ------------------------------------------------------------- SiteConfig
BBC_URL == <<"https", "://", "ex.com">>
APNEWS_URL == <<"https", "://", "ap.com", "/">>

SiteConfig(base, news, kw, summ, datesel, attr) ==
    [base_url |-> HttpUrl(base),
     news_url |-> IF news = None THEN None ELSE HttpUrl(news),
     keyword |-> kw,
     summary_selector |-> summ,
     date_selector |-> datesel,
     date_attribute |-> attr]

bbc_config ==
    SiteConfig(BBC_URL, BBC_URL \o <<"/", "news">>, <<"article">>,
               <<"p">>, <<"time">>, <<"datetime">>)

apnews_config ==
    SiteConfig(APNEWS_URL, None, <<"article">>, None, None, <<"data-ts">>)

\* keyword left at its declared default, None.
nokeyword_config ==
    SiteConfig(BBC_URL, None, None, None, None, <<"data-ts">>)

ConfigSet == {bbc_config, apnews_config, nokeyword_config}

\* ------------------------------------------------------------- strings
\* keyword in link, for two strings.
Contains(s, k) ==
    \E i \in 1..(Len(s) + 1) :
        /\ i + Len(k) - 1 <= Len(s)
        /\ SubSeq(s, i, i + Len(k) - 1) = k

\* link.startswith("http")
HttpWords == {"http", "https", "http-news"}
StartsWithHttp(s) == Len(s) > 0 /\ s[1] \in HttpWords

Blank == {" "}
RECURSIVE LStrip(_)
LStrip(s) == IF s # <<>> /\ Head(s) \in Blank THEN LStrip(Tail(s)) ELSE s
RECURSIVE RStrip(_)
RStrip(s) ==
    IF s # <<>> /\ s[Len(s)] \in Blank THEN RStrip(SubSeq(s, 1, Len(s) - 1)) ELSE s
\* str.strip()
Strip(s) == RStrip(LStrip(s))

\* ------------------------------------------------------------- Fetcher
\* What the network answers to requests.get: a transport failure, or a
\* response with a status code and a body.  The body of an article page is
\* what select_one(date_selector) and get(date_attribute) find on it.
StatusCodes == {"200", "404"}

RawDates == {None, <<>>, <<"1700000000000">>, <<"2024-05-01T00:00:00Z">>, <<"not-a-date">>}

Responses ==
    [transport_error : {TRUE}, status : {"-"}, date_elem : {FALSE}, date_raw : {None}]
    \cup [transport_error : {FALSE}, status : StatusCodes,
          date_elem : {FALSE}, date_raw : {None}]
    \cup [transport_error : {FALSE}, status : {"200"},
          date_elem : {TRUE}, date_raw : {None, <<"2024-05-01T00:00:00Z">>}]

\* requests.get raises for a URL it cannot request (no http/https scheme).
ResponsesTo(url) ==
    IF HttpUrlValid(url) THEN Responses
    ELSE {r \in Responses : r.transport_error}

\* get_page_html: raises what requests.get raises; a status other than 200
\* is logged and the content returned all the same.
get_page_html(resp) ==
    IF resp.transport_error
    THEN [exc |-> "RequestException", html |-> resp, logged |-> "-"]
    ELSE [exc |-> NoExc, html |-> resp,
          logged |-> IF resp.status # "200" THEN "Failed to fetch" ELSE "-"]

\* get_soup: parses whatever get_page_html returned.
get_soup(resp) ==
    LET page == get_page_html(resp)
    IN  [exc |-> page.exc, soup |-> page.html]

\* ------------------------------------------------------------- Date normalizer
\* str.isdigit()
Digits == {"1700000000000"}
IsDigit(s) == s # <<>> /\ \A i \in 1..Len(s) : s[i] \in Digits

\* dt.fromtimestamp(int(s) / 1000, tz=utc).date()
FromTimestampMs(s) ==
    CASE s = <<"1700000000000">> -> "2023-11-14"
      [] OTHER -> "1970-01-01"

\* dateutil parser.parse(s).date(); ParserError is a ValueError.
DateutilParses(s) == s \in {<<"2024-05-01T00:00:00Z">>}
DateutilParse(s) ==
    CASE s = <<"2024-05-01T00:00:00Z">> -> "2024-05-01"
      [] OTHER -> "1970-01-01"

\* parse_date: only ValueError is caught; None has no isdigit.
parse_date(date_str) ==
    IF date_str = None
    THEN [exc |-> "AttributeError: isdigit", date |-> Today]
    ELSE IF IsDigit(date_str)
    THEN [exc |-> NoExc, date |-> FromTimestampMs(date_str)]
    ELSE IF DateutilParses(date_str)
    THEN [exc |-> NoExc, date |-> DateutilParse(date_str)]
    ELSE [exc |-> NoExc, date |-> Today]

\* ------------------------------------------------------------- NewsArticle
NoArticle ==
    [site_name |-> "-", title |-> <<>>, url |-> <<>>,
     published_date |-> Today, summary |-> <<>>]

\* NewsArticle(...): pydantic validates the fields; title and summary are
\* plain str, url is an HttpUrl, published_date is a date already.
NewsArticle(site_name, title, url, published_date, summary) ==
    IF HttpUrlValid(url)
    THEN [exc |-> NoExc,
          article |-> [site_name |-> site_name, title |-> title,
                       url |-> HttpUrl(url),
                       published_date |-> published_date,
                       summary |-> summary]]
    ELSE [exc |-> "ValidationError", article |-> NoArticle]

\* ------------------------------------------------------------- cards
\* Links found on pages.
RelArticle == <<"/", "article", "/", "1">>
RelVideo == <<"/", "video", "/", "2">>
AbsArticle == <<"https", "://", "ex.com", "/", "article", "/", "1">>
AbsArticleUpper == <<"https", "://", "EX.com", "/", "article", "/", "1">>
HttpNewsArticle == <<"http-news", "/", "article", "/", "1">>

Hrefs == {RelArticle, RelVideo, AbsArticle, AbsArticleUpper, HttpNewsArticle}

\* A card, as the selectors of the configuration see it.
Card(link_elem, href, title_elem, title_text, summary_elem, date_elem, date_raw) ==
    [link_elem |-> link_elem, href |-> href,
     title_elem |-> title_elem, title_text |-> title_text,
     summary_elem |-> summary_elem,
     date_elem |-> date_elem, date_raw |-> date_raw]

IsoDate == <<"2024-05-01T00:00:00Z">>

Story == <<" ", "Story One", " ">>

\* The cards a page may hold: a well-formed card for every link, and the
\* cards that lack a node, an attribute or a value.
CardSet ==
    {Card(FALSE, None, TRUE, Story, TRUE, TRUE, IsoDate),
     Card(TRUE, None, TRUE, Story, TRUE, TRUE, IsoDate),
     Card(TRUE, <<>>, TRUE, Story, TRUE, TRUE, IsoDate)}
    \cup {Card(TRUE, h, TRUE, Story, TRUE, TRUE, IsoDate) : h \in Hrefs}
    \cup {Card(TRUE, h, TRUE, <<" ">>, TRUE, TRUE, IsoDate) : h \in {RelArticle, AbsArticle}}
    \cup {Card(TRUE, h, FALSE, <<>>, TRUE, TRUE, IsoDate) : h \in {RelArticle, AbsArticle}}
    \cup {Card(TRUE, RelArticle, TRUE, Story, TRUE, TRUE, r) : r \in RawDates}
    \cup {Card(TRUE, RelArticle, TRUE, Story, TRUE, FALSE, IsoDate),
          Card(TRUE, AbsArticle, TRUE, Story, FALSE, TRUE, IsoDate)}

\* The cards of the pages of a run over several sites: a card without a
\* link, two well-formed cards, and a card that makes scrape_site raise.
SimpleCards ==
    {Card(FALSE, None, TRUE, Story, TRUE, TRUE, IsoDate),
     Card(TRUE, RelArticle, TRUE, Story, TRUE, TRUE, IsoDate),
     Card(TRUE, AbsArticle, TRUE, Story, TRUE, TRUE, IsoDate),
     Card(TRUE, RelArticle, TRUE, Story, TRUE, TRUE, None)}

PageCards(cfgs) == IF Len(cfgs) = 1 THEN CardSet ELSE SimpleCards

\* ------------------------------------------------------------- scrape_site, one card
Skip(log, seen) ==
    [log |-> log, exc |-> NoExc, unique_links |-> seen,
     appended |-> FALSE, article |-> NoArticle, fetched |-> FALSE]

Raise(exc, seen, fetched) ==
    [log |-> "raise", exc |-> exc, unique_links |-> seen,
     appended |-> FALSE, article |-> NoArticle, fetched |-> fetched]

\* if not link.startswith("http"): link = f"{base_url}{link}"
ResolveLink(base_url, link) ==
    IF StartsWithHttp(link) THEN link ELSE base_url \o link

\* A slip in place of the lookup in the card: the node is never found there.
SelectDateMisses(card) == FALSE

\* date_elem = card.select_one(date_selector): a node of the card matches.
SelectDate(card) == card.date_elem

\* The date node and the raw date of one card (lines 256-270): the node in
\* the card, else the node of the article's own page, fetched once.
DateStr(config, card, resp) ==
    IF config.date_selector # None
    THEN IF SelectDate(card)
         THEN [exc |-> NoExc, date_str |-> card.date_raw, fetched |-> FALSE]
         ELSE LET time_soup == get_soup(resp)
              IN  IF time_soup.exc # NoExc
                  THEN [exc |-> time_soup.exc, date_str |-> None, fetched |-> TRUE]
                  ELSE IF ~time_soup.soup.date_elem
                  THEN [exc |-> "AttributeError: get", date_str |-> None, fetched |-> TRUE]
                  ELSE [exc |-> NoExc, date_str |-> time_soup.soup.date_raw,
                        fetched |-> TRUE]
    ELSE [exc |-> NoExc, date_str |-> card.date_raw, fetched |-> FALSE]

\* Lines 244-283: the card has passed the link checks.
ExtractArticle(config, card, link, seen, resp) ==
    IF ~card.title_elem
    THEN Skip("No title found", seen)
    ELSE
    LET title == Strip(card.title_text)
        summary == IF config.summary_selector # None /\ card.summary_elem
                   THEN <<"Summary">> ELSE <<>>
        d == DateStr(config, card, resp)
    IN  IF d.exc # NoExc THEN Raise(d.exc, seen, d.fetched)
        ELSE
        LET pub == parse_date(d.date_str)
        IN  IF pub.exc # NoExc THEN Raise(pub.exc, seen, d.fetched)
            ELSE
            LET built == NewsArticle(UrlHost(config.base_url), title, link,
                                     pub.date, summary)
            IN  IF built.exc # NoExc THEN Raise(built.exc, seen, d.fetched)
                ELSE [log |-> "Added article", exc |-> NoExc,
                      unique_links |-> seen, appended |-> TRUE,
                      article |-> built.article, fetched |-> d.fetched]

\* Lines 216-241: the link checks of one card, then the extraction.
CardStep(config, card, seen, resp) ==
    IF ~card.link_elem THEN Skip("No link element", seen)
    ELSE IF card.href = None \/ card.href = <<>> THEN Skip("No href", seen)
    ELSE
    LET link == ResolveLink(config.base_url, card.href)
    IN  IF link \in seen THEN Skip("Duplicate link", seen)
        ELSE IF config.keyword = None THEN Raise("TypeError", seen, FALSE)
        ELSE IF ~Contains(link, config.keyword) THEN Skip("No keyword", seen)
        ELSE ExtractArticle(config, card, link, seen \cup {link}, resp)

\* The link the fallback fetch of a card would request.
CardLink(config, card) ==
    IF card.link_elem /\ card.href # None
    THEN ResolveLink(config.base_url, card.href) ELSE <<>>

\* ------------------------------------------------------------- state
VARIABLES
    configs,       \* scrape_all_sites' argument
    idx,           \* position of the for loop over configs (1-based)
    pc,            \* where the run stands
    budget,        \* cards of the landing page not yet handed to a section
    left,          \* cards of the current section still to process
    articles,      \* scrape_site's list
    unique_links,  \* scrape_site's set
    all_articles,  \* scrape_all_sites' list
    exc,           \* the exception in flight out of scrape_site
    landing,       \* what the landing-page fetch of the current site met
    returned,      \* per site, in order: what scrape_site returned or that it raised
    log,           \* the last message logged
    fetches,       \* article pages fetched while processing the last card
    link_log,      \* the resolved links of the cards of this site's page so far
    ti,            \* azure_workflow_dag: the state of each task instance of the run
    try_number,    \* azure_workflow_dag: the attempts each task has started
    elapsed,       \* seconds the running attempt of the sensor has waited
    blob_list,     \* the names of the blobs in the container
    observed       \* the sensor's callable has returned True in this run

scraper_vars == <<configs, idx, pc, budget, left, articles, unique_links,
                  all_articles, exc, landing, returned, log, fetches, link_log>>

dag_vars == <<ti, try_number, elapsed, blob_list, observed>>

vars == <<scraper_vars, dag_vars>>

\* ------------------------------------------------------------- azure_workflow_dag, the tasks
\* default_args: "retries": 1
retries == 1

\* PythonSensor(poke_interval=60, ...)
poke_interval == 60

\* PythonSensor(timeout=60 * 30, ...)
timeout == 60 * 30

Sensor == "wait_for_scraped_data"

\* The chain record_start >> provision_azure >> ... >> generate_report_task,
\* by task_id.
TaskOrder ==
    <<"record_start_time", "terraform_apply_acr", "set_azure_vars",
      "push_image_to_acr", "terraform_apply_container_group", Sensor,
      "terraform_destroy", "generate_report">>

Tasks == {TaskOrder[i] : i \in DOMAIN TaskOrder}

\* a >> b makes a the upstream task of b.
Upstream(t) ==
    {TaskOrder[i] : i \in {j \in DOMAIN TaskOrder :
                              j < Len(TaskOrder) /\ TaskOrder[j + 1] = t}}

\* The blobs the container may hold: the scraper's output and another file.
BlobNames == {"articles.json", "scraper.log"}

\* A DAG run that has been triggered and has started no task.
DagIdle ==
    /\ ti = [t \in Tasks |-> "none"]
    /\ try_number = [t \in Tasks |-> 0]
    /\ elapsed = 0
    /\ blob_list = {}
    /\ observed = FALSE

\* Sequences over S of length 1..n.
SeqsUpTo(S, n) == UNION {[1..k -> S] : k \in 1..n}

Init ==
    /\ configs \in SeqsUpTo(ConfigSet, MaxSites)
    /\ idx = 1
    /\ pc = "loop"
    /\ budget = 0
    /\ left = 0
    /\ articles = <<>>
    /\ unique_links = {}
    /\ all_articles = <<>>
    /\ exc = NoExc
    /\ landing = "-"
    /\ returned = <<>>
    /\ log = "-"
    /\ fetches = 0
    /\ link_log = {}
    /\ DagIdle

config == configs[idx]

\* The landing URL: news_url, or base_url when there is none (lines 200-203).
LandingUrl(c) == IF c.news_url = None THEN c.base_url ELSE c.news_url

\* A slip in place of extend: the list is rebound to the last site's articles.
ExtendRebinds(all, arts) == arts

\* all_articles.extend(articles)
Extend(all, arts) == all \o arts

\* Lines 295-297: the loop takes the next configuration.
StartSite ==
    /\ UNCHANGED dag_vars
    /\ pc = "loop"
    /\ idx <= Len(configs)
    /\ pc' = "fetch"
    /\ log' = "Scraping site"
    /\ UNCHANGED <<configs, idx, budget, left, articles, unique_links,
                   all_articles, exc, landing, returned, fetches, link_log>>

\* A slip in place of the fresh set: the set of the scrape before is kept.
KeepLinks(prev) == prev

\* unique_links = set(): the set this invocation starts with, whatever an
\* earlier invocation left behind.
FreshLinks(prev) == {}

\* Lines 199-209: fetch and parse the landing page, select the sections.
FetchLanding ==
    /\ UNCHANGED dag_vars
    /\ pc = "fetch"
    /\ \E resp \in {r \in ResponsesTo(LandingUrl(config)) : ~r.date_elem} :
          LET page == get_soup(resp)
          IN  /\ landing' = IF resp.transport_error THEN "transport" ELSE resp.status
              /\ IF page.exc # NoExc
                 THEN /\ exc' = page.exc
                      /\ pc' = "except"
                      /\ UNCHANGED <<articles, unique_links>>
                 ELSE /\ exc' = NoExc
                      /\ pc' = "section"
                      /\ articles' = <<>>
                      /\ unique_links' = FreshLinks(unique_links)
    /\ budget' = MaxCards
    /\ left' = 0
    /\ log' = "Fetching URL"
    /\ UNCHANGED <<configs, idx, all_articles, returned, fetches, link_log>>

\* Lines 211-213: the next section of the page and its cards.
EnterSection ==
    /\ UNCHANGED dag_vars
    /\ pc = "section"
    /\ \E n \in 0..budget :
          /\ left' = n
          /\ budget' = budget - n
          /\ pc' = IF n = 0 THEN "section" ELSE "card"
    /\ log' = "Found cards"
    /\ UNCHANGED <<configs, idx, articles, unique_links, all_articles, exc,
                   landing, returned, fetches, link_log>>

FallbackResponses(c, card) ==
    IF c.date_selector # None /\ ~card.date_elem
    THEN ResponsesTo(CardLink(c, card))
    ELSE {r \in Responses : r.transport_error}

\* Whether the card has every field but the link: a title node, and a link
\* the keyword filter lets pass.
Complete(c, card) ==
    /\ card.title_elem
    /\ c.keyword # None
    /\ Contains(CardLink(c, card), c.keyword)

\* One more card with this resolved link has been seen on the page.
LogLink(lg, link, complete) ==
    LET old == {e \in lg : e.link = link}
    IN  (lg \ old) \cup
        {[link |-> link, n |-> IF old = {} THEN 1 ELSE 2,
          complete |-> complete \/ \E e \in old : e.complete]}

\* A slip in place of append: the new Article is put at the head of the list.
InsertArticleFirst(arts, a) == <<a>> \o arts

\* articles.append(NewsArticle(...))
AppendArticle(arts, a) == Append(arts, a)

\* Lines 215-283: the body of the loop over cards, for one card and what
\* the network answers should the card need its article page.
ProcessCardWith(card, resp) ==
    /\ UNCHANGED dag_vars
    /\ pc = "card"
    /\ left > 0
    /\ LET r == CardStep(config, card, unique_links, resp)
       IN  /\ unique_links' = r.unique_links
           /\ articles' = IF r.appended THEN AppendArticle(articles, r.article)
                          ELSE articles
           /\ exc' = r.exc
           /\ log' = r.log
           /\ fetches' = IF r.fetched THEN 1 ELSE 0
           /\ pc' = IF r.exc # NoExc THEN "except"
                    ELSE IF left = 1 THEN "section" ELSE "card"
    /\ link_log' = IF CardLink(config, card) = <<>> THEN link_log
                   ELSE LogLink(link_log, CardLink(config, card),
                                Complete(config, card))
    /\ left' = left - 1
    /\ UNCHANGED <<configs, idx, budget, all_articles, landing, returned>>

ProcessCard ==
    /\ pc = "card"
    /\ \E card \in PageCards(configs) :
       \E resp \in FallbackResponses(config, card) :
          ProcessCardWith(card, resp)

\* scrape_site is left: its locals are gone, and the caller's articles is
\* rebound (to the list returned, which `returned` keeps, or to []).  The set
\* of links is left as the invocation built it: nothing but the next
\* invocation's own `set()` makes it empty again.
ForgetSite ==
    /\ articles' = <<>>
    /\ UNCHANGED unique_links
    /\ budget' = 0
    /\ left' = 0
    /\ landing' = "-"
    /\ fetches' = 0
    /\ link_log' = {}

\* Lines 285-289 and 299-300: no section is left; scrape_site returns and
\* the caller extends its list.
SiteReturn ==
    /\ UNCHANGED dag_vars
    /\ pc = "section"
    /\ all_articles' = Extend(all_articles, articles)
    /\ returned' = Append(returned, [ok |-> TRUE, articles |-> articles])
    /\ idx' = idx + 1
    /\ pc' = "loop"
    /\ log' = "Scraping complete"
    /\ ForgetSite
    /\ UNCHANGED <<configs, exc>>

\* A slip in the except branch: the Articles built before the exception are
\* added to the list all the same.
ExceptExtends(all, arts) == all \o arts

\* except Exception: the branch logs and rebinds `articles`; all_articles is
\* what it was.
ExceptKeeps(all, arts) == all

\* Lines 301-303: the exception raised in scrape_site is caught.
SiteExcept ==
    /\ UNCHANGED dag_vars
    /\ pc = "except"
    /\ returned' = Append(returned, [ok |-> FALSE, articles |-> <<>>])
    /\ exc' = NoExc
    /\ idx' = idx + 1
    /\ pc' = "loop"
    /\ log' = "Scraping failed"
    /\ all_articles' = ExceptKeeps(all_articles, articles)
    /\ ForgetSite
    /\ UNCHANGED configs

\* Lines 304-305: the loop is over; all_articles is returned.
Finish ==
    /\ UNCHANGED dag_vars
    /\ pc = "loop"
    /\ idx > Len(configs)
    /\ pc' = "done"
    /\ log' = "All sites scraped"
    /\ UNCHANGED <<configs, idx, budget, left, articles, unique_links,
                   all_articles, exc, landing, returned, fetches, link_log>>

Next ==
    \/ StartSite
    \/ FetchLanding
    \/ EnterSection
    \/ ProcessCard
    \/ SiteReturn
    \/ SiteExcept
    \/ Finish

Spec == Init /\ [][Next]_vars

\* ------------------------------------------------------------- helpers of the claims
RECURSIVE Flatten(_)
\* The articles of the sites that returned, in the order of the sites.
Flatten(rs) ==
    IF rs = <<>> THEN <<>>
    ELSE (IF Head(rs).ok THEN Head(rs).articles ELSE <<>>) \o Flatten(Tail(rs))

SiteNames(arts) == {arts[i].site_name : i \in DOMAIN arts}

\* ------------------------------------------------------------- C1
\* C1: whichever sites fail and wherever they sit in the list, no exception
\* leaves scrape_all_sites (an exception in flight is always on its way to
\* the handler of the site that raised it, and none is left when the loop
\* goes on or ends), and all_articles is exactly the concatenation, in order,
\* of what scrape_site returned for the sites that did not fail.
C1_Isolation ==
    /\ exc # NoExc => pc = "except"
    /\ pc \in {"loop", "done"} =>
          /\ all_articles = Flatten(returned)
          /\ Len(returned) = idx - 1
    /\ pc = "done" => Len(returned) = Len(configs)

\* A finished run in which a site failed and a later site returned articles,
\* which are all that scrape_all_sites returns.
C1_Witness ==
    /\ pc = "done"
    /\ \E i, j \in DOMAIN returned :
          /\ i < j
          /\ ~returned[i].ok
          /\ returned[j].ok
          /\ returned[j].articles # <<>>
          /\ all_articles = returned[j].articles

\* ------------------------------------------------------------- C2
\* C2: when scrape_all_sites has finished, the aggregate it returns holds an
\* entry for every configured site, failed sites included.
C2_EntryForEverySite ==
    pc = "done" =>
        \A i \in DOMAIN configs :
            UrlHost(configs[i].base_url) \in SiteNames(all_articles)

\* ------------------------------------------------------------- C3
UniqueUrls(arts) ==
    \A i, j \in DOMAIN arts : i # j => arts[i].url # arts[j].url

\* C3: in the list one scrape_site call returns, no two Articles have the
\* same url.
C3_UniqueUrls ==
    \A k \in DOMAIN returned : returned[k].ok => UniqueUrls(returned[k].articles)

\* ------------------------------------------------------------- C4
ArticlesFor(arts, link) == {i \in DOMAIN arts : arts[i].url = HttpUrl(link)}

\* C4: when scrape_site returns, every resolved link that two or more cards
\* of the page carried, at least one of them with a title node and a link the
\* keyword filter passes, has exactly one Article, whatever the order of the
\* cards.
C4_OneArticlePerLink ==
    pc = "section" =>
        \A e \in link_log :
            (e.n = 2 /\ e.complete) =>
                Cardinality(ArticlesFor(articles, e.link)) = 1

\* ------------------------------------------------------------- C5
LacksLinkOrTitle(card) ==
    \/ ~card.link_elem
    \/ card.href \in {None, <<>>}
    \/ ~card.title_elem

\* C5: the step that processes a card with no link node, no href or no title
\* node adds no Article, raises nothing, and leaves the loop at the next card
\* (or the next section).
C5_SoftSkip ==
    [][\A card \in CardSet : \A resp \in Responses :
          (LacksLinkOrTitle(card) /\ ProcessCardWith(card, resp)) =>
              /\ articles' = articles
              /\ exc' = NoExc
              /\ pc' \in {"card", "section"}]_vars

\* ------------------------------------------------------------- C6
\* C6: a candidate that fails the NewsArticle schema is dropped alone: no
\* ValidationError leaves scrape_site.
C6_ValidationIsSoft == ~(pc = "except" /\ exc = "ValidationError")

\* ------------------------------------------------------------- C7
\* C7: every Article scrape_site returns has a title that is not empty after
\* trimming.
C7_TitleNotEmpty ==
    \A k \in DOMAIN returned :
        \A i \in DOMAIN returned[k].articles :
            Strip(returned[k].articles[i].title) # <<>>

\* ------------------------------------------------------------- C8
\* C8: a card that went to the fallback fetch of its article page never makes
\* scrape_site raise because the fetch failed or because the article page has
\* no node matching date_selector either.
C8_FallbackIsLocal ==
    fetches = 1 => exc \notin {"RequestException", "AttributeError: get"}

\* ------------------------------------------------------------- C9
\* C9: parse_date raises nothing, whatever the raw value, None included.
C9_ParseDateNeverRaises == ~(pc = "except" /\ exc = "AttributeError: isdigit")

\* ------------------------------------------------------------- C10
\* C10: after a landing-page fetch that met a transport failure or a status
\* other than 200, the page is not parsed for sections and cards, and the
\* site's scrape has failed.
C10_FailedFetchAborts ==
    landing \in {"transport", "404"} => pc = "except"

\* ------------------------------------------------------------- C11
\* The card has a link node with an href and a title node.
HasRequired(card) ==
    /\ card.link_elem
    /\ card.href \notin {None, <<>>}
    /\ card.title_elem

\* C11: with a keyword configured, every Article of the list has a url that
\* contains the keyword, and the step that processes a card with a link node,
\* an href, a title node and a resolved link that contains the keyword and was
\* not seen before adds an Article.
C11_KeywordFilter ==
    [][\A card \in CardSet : \A resp \in Responses :
          (pc = "card" /\ config.keyword # None /\ ProcessCardWith(card, resp)) =>
              /\ \A i \in DOMAIN articles' :
                    Contains(articles'[i].url, config.keyword)
              /\ (/\ HasRequired(card)
                  /\ Contains(CardLink(config, card), config.keyword)
                  /\ CardLink(config, card) \notin unique_links)
                 => Len(articles') = Len(articles) + 1]_vars

\* ------------------------------------------------------------- C12
\* The link starts with a scheme ("https://...").
HasScheme(link) == Len(link) >= 2 /\ link[2] = "://"

\* The well-formed absolute URL of a link found on a page of base_url: the
\* link itself when it has a scheme, scheme and host followed by the link
\* when it is a path ("/..."), the link under the root path otherwise.
WellFormedResolve(base_url, link) ==
    IF HasScheme(link) THEN link
    ELSE IF link[1] = "/" THEN SubSeq(base_url, 1, 3) \o link
    ELSE SubSeq(base_url, 1, 3) \o <<"/">> \o link

\* C12: the step that processes a card with an href resolves the link to the
\* well-formed absolute URL: a link without a scheme gets scheme and host of
\* base_url in front, with exactly one slash between host and path, and a
\* link with a scheme is left unchanged.
C12_RelativeLinkResolution ==
    [][\A card \in CardSet : \A resp \in Responses :
          (/\ pc = "card"
           /\ card.link_elem
           /\ card.href \notin {None, <<>>}
           /\ ProcessCardWith(card, resp))
          => \E e \in link_log' :
                e.link = WellFormedResolve(config.base_url, card.href)]_vars

\* ------------------------------------------------------------- C14
\* C14: with no keyword configured, the step that processes a card does not
\* raise TypeError and does not skip the card for its keyword, and a card
\* with a link node, an href, a title node and a link not seen before
\* becomes an Article.
C14_KeywordAbsent ==
    [][\A card \in CardSet : \A resp \in Responses :
          (pc = "card" /\ config.keyword = None /\ ProcessCardWith(card, resp)) =>
              /\ exc' # "TypeError"
              /\ log' # "No keyword"
              /\ (HasRequired(card) /\ CardLink(config, card) \notin unique_links)
                 => Len(articles') = Len(articles) + 1]_vars

\* ------------------------------------------------------------- C13
\* C13: the list scrape_site returns follows the order of the cards: the step
\* that processes a card leaves the list as it is (the card is skipped, or
\* the step raises) or puts the Article of this card after the Articles of
\* all earlier cards, and the list returned is the list so built.
C13_DocumentOrder ==
    [][/\ pc = "card" =>
             \/ log' # "Added article" /\ articles' = articles
             \/ /\ log' = "Added article"
                /\ Len(articles') = Len(articles) + 1
                /\ SubSeq(articles', 1, Len(articles)) = articles
                /\ \A card \in PageCards(configs) :
                   \A resp \in FallbackResponses(config, card) :
                      ProcessCardWith(card, resp) =>
                         articles'[Len(articles')].url
                            = HttpUrl(CardLink(config, card))
       /\ (pc = "section" /\ pc' = "loop") =>
             returned'[Len(returned')] = [ok |-> TRUE, articles |-> articles]]_vars

\* Two cards of a page became Articles with different urls, and a card
\* between or around them was skipped (a link seen and no Article for it, or
\* a page of three cards).
C13_Witness ==
    /\ pc = "section"
    /\ budget = 0
    /\ left = 0
    /\ Len(articles) = 2
    /\ articles[1].url # articles[2].url
    /\ Cardinality(link_log) = 3

\* ------------------------------------------------------------- C15
\* The logs of the steps that skip a card.
SkipLogs ==
    {"No link element", "No href", "Duplicate link", "No keyword",
     "No title found"}

\* C15: the step that processes one card fetches the article's page at most
\* once, and only when date_selector is configured, no node of the card
\* matches it and the card was not skipped (it has a link node, an href and a
\* title node, its link is new and passes the keyword step); a step that
\* skips the card fetches nothing.
C15_NestedFetchBounded ==
    [][pc = "card" =>
          /\ fetches' <= 1
          /\ log' \in SkipLogs => fetches' = 0
          /\ fetches' = 1 =>
                \A card \in PageCards(configs) :
                \A resp \in FallbackResponses(config, card) :
                   ProcessCardWith(card, resp) =>
                      /\ config.date_selector # None
                      /\ ~card.date_elem
                      /\ HasRequired(card)
                      /\ CardLink(config, card) \notin unique_links
                      /\ config.keyword # None
                      /\ Contains(CardLink(config, card), config.keyword)]_vars

\* A card without a date node had its article page fetched and became an
\* Article.
C15_Witness ==
    /\ fetches = 1
    /\ log = "Added article"
    /\ Len(articles) >= 1

\* ------------------------------------------------------------- C16
\* C16: the set of seen links belongs to one invocation of scrape_site: while
\* a site's cards are processed the set holds links of cards of this site's
\* page only, never a link an earlier invocation saw, so it is empty when the
\* first card of every site is processed.
C16_DedupScopedToSite ==
    pc \in {"section", "card"} =>
        unique_links \subseteq {e.link : e \in link_log}

\* Two sites of one run returned an Article for the same URL: the second
\* site did not take the URL for a duplicate.
C16_Witness ==
    /\ Len(returned) = 2
    /\ returned[1].ok
    /\ returned[2].ok
    /\ \E i \in DOMAIN returned[1].articles :
       \E j \in DOMAIN returned[2].articles :
          returned[1].articles[i].url = returned[2].articles[j].url

\* ------------------------------------------------------------- C17
\* C17: every site gives the aggregate all of the Articles its scrape_site
\* built or none of them: the list grows only when scrape_site returns, and
\* then by the whole list built; no other step, the one that catches a site's
\* exception included, changes it, so the Articles built before an exception
\* are absent from it.
C17_AllOrNothing ==
    [][/\ (pc = "section" /\ pc' = "loop") =>
             all_articles' = all_articles \o articles
       /\ ~(pc = "section" /\ pc' = "loop") =>
             all_articles' = all_articles]_vars

\* An exception was raised at a card after an earlier card of the site had
\* become an Article.
C17_Witness ==
    /\ pc = "except"
    /\ exc # NoExc
    /\ Len(articles) >= 1

\* ------------------------------------------------------------- azure_workflow_dag, one run
\* A slip in place of the trigger rule: every upstream task is done, however
\* it ended (all_done).
AllDone(t) ==
    \A u \in Upstream(t) : ti[u] \in {"success", "failed", "upstream_failed"}

\* trigger_rule "all_success" (the default, and the one written out for
\* terraform_destroy and generate_report): every upstream task succeeded.
AllSuccess(t) == \A u \in Upstream(t) : ti[u] = "success"

\* return "articles.json" in blob_list
check_blob_exists == "articles.json" \in blob_list

\* The scheduler starts a task whose trigger rule is met.
DagSchedule(t) ==
    /\ ti[t] = "none"
    /\ AllSuccess(t)
    /\ ti' = [ti EXCEPT ![t] = "running"]
    /\ try_number' = [try_number EXCEPT ![t] = 1]
    /\ UNCHANGED <<elapsed, blob_list, observed, scraper_vars>>

\* The scheduler gives up a task one of whose upstream tasks failed.
DagUpstreamFailed(t) ==
    /\ ti[t] = "none"
    /\ \E u \in Upstream(t) : ti[u] \in {"failed", "upstream_failed"}
    /\ ti' = [ti EXCEPT ![t] = "upstream_failed"]
    /\ UNCHANGED <<try_number, elapsed, blob_list, observed, scraper_vars>>

\* The callable or command of a task other than the sensor ends well.
TaskSucceeds(t) ==
    /\ t # Sensor
    /\ ti[t] = "running"
    /\ ti' = [ti EXCEPT ![t] = "success"]
    /\ UNCHANGED <<try_number, elapsed, blob_list, observed, scraper_vars>>

\* The callable or command of a task raises or exits with an error: the
\* task is retried while it has a retry left (default_args), else it failed.
TaskFails(t) ==
    /\ ti[t] = "running"
    /\ ti' = [ti EXCEPT ![t] = IF try_number[t] <= retries
                                THEN "up_for_retry" ELSE "failed"]
    /\ UNCHANGED <<try_number, elapsed, blob_list, observed, scraper_vars>>

\* retry_delay has passed: the next attempt of the task starts.
TaskRetries(t) ==
    /\ ti[t] = "up_for_retry"
    /\ ti' = [ti EXCEPT ![t] = "running"]
    /\ try_number' = [try_number EXCEPT ![t] = @ + 1]
    /\ elapsed' = IF t = Sensor THEN 0 ELSE elapsed
    /\ UNCHANGED <<blob_list, observed, scraper_vars>>

\* One round of the sensor in mode "poke": the callable is called; True ends
\* the task well; False after more than `timeout` seconds fails it for good
\* (a sensor that timed out is not retried); else it sleeps poke_interval.
SensorPoke ==
    /\ ti[Sensor] = "running"
    /\ IF check_blob_exists
       THEN /\ ti' = [ti EXCEPT ![Sensor] = "success"]
            /\ observed' = TRUE
            /\ UNCHANGED elapsed
       ELSE IF elapsed > timeout
       THEN /\ ti' = [ti EXCEPT ![Sensor] = "failed"]
            /\ UNCHANGED <<observed, elapsed>>
       ELSE /\ elapsed' = elapsed + poke_interval
            /\ UNCHANGED <<ti, observed>>
    /\ UNCHANGED <<try_number, blob_list, scraper_vars>>

\* Something (the scraper's container, or anything else) puts a blob into
\* the container.
BlobUploaded ==
    /\ \E name \in BlobNames \ blob_list : blob_list' = blob_list \cup {name}
    /\ UNCHANGED <<ti, try_number, elapsed, observed, scraper_vars>>

DagInit ==
    /\ Init
    /\ configs = <<bbc_config>>

DagNext ==
    \/ \E t \in Tasks : DagSchedule(t)
    \/ \E t \in Tasks : DagUpstreamFailed(t)
    \/ \E t \in Tasks : TaskSucceeds(t)
    \/ \E t \in Tasks : TaskFails(t)
    \/ \E t \in Tasks : TaskRetries(t)
    \/ SensorPoke
    \/ BlobUploaded

DagSpec == DagInit /\ [][DagNext]_vars

\* ------------------------------------------------------------- C18
\* An attempt of the task has started in this run.
Started(t) == ti[t] \in {"running", "success", "up_for_retry", "failed"}

\* C18: the eight tasks run in the order of the chain: a task has started
\* only if the task before it succeeded; terraform_destroy has started only
\* if the sensor has seen articles.json; and terraform_destroy has not
\* started in a run where a task before it (the sensor that timed out
\* included) failed.
C18_StrictLinearOrder ==
    /\ \A i \in DOMAIN TaskOrder :
          (i > 1 /\ Started(TaskOrder[i])) => ti[TaskOrder[i - 1]] = "success"
    /\ Started("terraform_destroy") => observed
    /\ (\E i \in DOMAIN TaskOrder :
           /\ \E j \in DOMAIN TaskOrder :
                 j > i /\ TaskOrder[j] = "terraform_destroy"
           /\ ti[TaskOrder[i]] \in {"failed", "upstream_failed"})
       => ~Started("terraform_destroy")

\* The sensor waited, saw the blob on a later poke, and terraform_destroy
\* and the report ran after it.
C18_Witness ==
    /\ ti["generate_report"] = "success"
    /\ ti["terraform_destroy"] = "success"
    /\ observed
    /\ elapsed > 0

====
